---- MODULE Spec2Model ----
(***************************************************************************)
(* Nord Stage 3 Interface: the capture -> tempo-detect -> quantize ->      *)
(* notate pipeline.                                                        *)
(*                                                                         *)
(* Units.  Times are integer milliseconds (Date.now()).  A beat position   *)
(* is the exact rational ms * bpm / 60000; it is kept as the integer       *)
(* ms * bpm * 16, i.e. in units of 1/UnitsPerBeat of a beat, so that every *)
(* grid subdivision (1, 1/2, ..., 1/16 beat) and every MusicXML division   *)
(* (1/16 beat) is a whole number of units.  JavaScript doubles are         *)
(* modelled by exact arithmetic.                                           *)
(***************************************************************************)
EXTENDS Integers, Sequences, FiniteSets, TLC

VARIABLES
    \* --- midiStore (zustand) and the useMidi hook
    inputPortId,        \* midiStore.inputPortId
    isConnected,        \* midiStore.isConnected
    handlerAttached,    \* activeInputRef.current.onmidimessage is set
    activeNotes,        \* midiStore.activeNotes : note -> NoteState
    ccValues,           \* midiStore.ccValues : cc -> CCState
    pitchBend,          \* midiStore.pitchBend
    currentChord,       \* midiStore.currentChord
    timers,             \* setTimeout(..., 0) callbacks not yet run, oldest first
    now,                \* the clock read by Date.now() and event.timeStamp
    \* --- sessionStore (zustand)
    recordingState, recordingStartMs, recordingDurationMs,
    capturedNotes, musicXml, detectedBpm,
    \* --- App and the useNoteCapture hook instance
    activeTab,          \* App's activeTab state
    heldRef,            \* useNoteCapture heldRef.current : note -> HeldNote
    prevActiveRef,      \* useNoteCapture prevActiveRef.current (its keys)
    pendingEffects,     \* effects of useNoteCapture React has still to run
    allNotes,           \* the take the stop effect last handed to quantizeNotes
    \* --- history of the run, read by the properties only
    lastNoteOn,         \* note -> its latest note message, if a sounding note-on
    lastCC,             \* cc -> its latest control change
    takeOpen,           \* notes pressed in this take and not yet released
    takeClosed,         \* the press/release pairs completed in this take
    \* --- pure-function harnesses
    dInput, dEvent,     \* parseMidiMessage: input and result
    qTake, qResult, qDoc, qStage,  \* quantizeNotes / generateMusicXml
    qDoc2,                         \* the document of a second run on qTake
    tOnsets, tIois, tBpm, tStage,  \* detectBPM: onsets, kept IOIs and result
    cNotes, cChord, cStage         \* recognizeChord: held notes and result

midiVars == <<inputPortId, isConnected, handlerAttached, activeNotes, ccValues,
              pitchBend, currentChord, timers>>
sessionVars == <<recordingState, recordingStartMs, recordingDurationMs,
                 capturedNotes, musicXml, detectedBpm>>
hookVars == <<heldRef, prevActiveRef, pendingEffects, allNotes>>
historyVars == <<lastNoteOn, lastCC, takeOpen, takeClosed>>
decodeVars == <<dInput, dEvent>>
notateVars == <<qTake, qResult, qDoc, qStage, qDoc2>>
tempoVars == <<tOnsets, tIois, tBpm, tStage>>
chordVars == <<cNotes, cChord, cStage>>
vars == <<midiVars, now, sessionVars, activeTab, hookVars, historyVars,
          decodeVars, notateVars, tempoVars, chordVars>>

-----------------------------------------------------------------------------
(* Generic helpers. *)

Abs(x) == IF x < 0 THEN -x ELSE x

Max(a, b) == IF a >= b THEN a ELSE b

\* Math.round: the nearest integer to num/den (den > 0), halves rounded up.
RoundDiv(num, den) == (2 * num + den) \div (2 * den)

\* Math.ceil of num/den (den > 0).
CeilDiv(num, den) == -((-num) \div den)

\* The empty Map.
EmptyMap == [k \in {} |-> 0]

\* Map.set(k, v) and Map.delete(k) on a copy.
MapSet(m, k, v) == [x \in (DOMAIN m) \cup {k} |-> IF x = k THEN v ELSE m[x]]

MapDelete(m, k) == [x \in (DOMAIN m) \ {k} |-> m[x]]

RECURSIVE SeqSum(_)
SeqSum(s) == IF s = <<>> THEN 0 ELSE Head(s) + SeqSum(Tail(s))

SetMin(S) == CHOOSE x \in S : \A y \in S : x <= y

\* The elements of a set of integers in ascending order (Map iteration order
\* is insertion order; the maps below are only iterated where order is free).
RECURSIVE Ascending(_)
Ascending(S) == IF S = {} THEN <<>> ELSE <<SetMin(S)>> \o Ascending(S \ {SetMin(S)})

-----------------------------------------------------------------------------
(* Bounds of the model. *)

MaxTime == 2            \* the clock runs over 1..MaxTime
MaxTimers == 1          \* setTimeout callbacks queued at once
MaxDataByte == 1        \* data bytes 0..MaxDataByte besides the chosen ones
MaxCaptured == 1        \* press/release pairs handled in one take
MaxTakeLen == 2         \* notes of a take given to the quantizer harness

-----------------------------------------------------------------------------
(* Message Decoder: src/lib/midi/MidiEngine.ts *)

\* Reading a Uint8Array past its end gives undefined.
Undefined == -1

MidiMessageType == {"noteOn", "noteOff", "controlChange", "programChange",
                    "pitchBend", "channelPressure", "polyPressure", "sysex",
                    "unknown"}

\* data[i] of a Uint8Array kept as the sequence data[0], data[1], ...
ByteAt(data, i) == IF i + 1 <= Len(data) THEN data[i + 1] ELSE Undefined

\* ToInt32 of an operand of << and | : undefined becomes 0.
ToInt32(x) == IF x = Undefined THEN 0 ELSE x

\* a | b for non-negative integers.
RECURSIVE BitOr(_, _)
BitOr(a, b) ==
    IF a = 0 THEN b
    ELSE IF b = 0 THEN a
    ELSE 2 * BitOr(a \div 2, b \div 2) + (IF a % 2 = 1 \/ b % 2 = 1 THEN 1 ELSE 0)

\* Array.from(data) that loses the status byte.
RawBytes_payloadOnly(data) == Tail(data)

\* Array.from(data): the bytes as received.
RawBytes(data) == data

parseMidiMessage(data, timestamp) ==
    LET status == data[1]
        type == status \div 16            \* (status & 0xf0) >> 4
        channel == (status % 16) + 1      \* (status & 0x0f) + 1
        raw == RawBytes(data)
    IN CASE type = 9 ->
              LET note == ByteAt(data, 1)
                  velocity == ByteAt(data, 2)
              IN [type |-> IF velocity # Undefined /\ velocity > 0
                           THEN "noteOn" ELSE "noteOff",
                  channel |-> channel, timestamp |-> timestamp, raw |-> raw,
                  note |-> note, velocity |-> velocity]
         [] type = 8 ->
              [type |-> "noteOff", channel |-> channel, timestamp |-> timestamp,
               raw |-> raw, note |-> ByteAt(data, 1), velocity |-> ByteAt(data, 2)]
         [] type = 11 ->
              [type |-> "controlChange", channel |-> channel,
               timestamp |-> timestamp, raw |-> raw,
               controller |-> ByteAt(data, 1), value |-> ByteAt(data, 2)]
         [] type = 12 ->
              [type |-> "programChange", channel |-> channel,
               timestamp |-> timestamp, raw |-> raw, program |-> ByteAt(data, 1)]
         [] type = 14 ->
              [type |-> "pitchBend", channel |-> channel, timestamp |-> timestamp,
               raw |-> raw,
               bend |-> BitOr(ToInt32(ByteAt(data, 2)) * 128,
                              ToInt32(ByteAt(data, 1))) - 8192]
         [] type = 13 ->
              [type |-> "channelPressure", channel |-> channel,
               timestamp |-> timestamp, raw |-> raw, pressure |-> ByteAt(data, 1)]
         [] type = 10 ->
              [type |-> "polyPressure", channel |-> channel,
               timestamp |-> timestamp, raw |-> raw,
               note |-> ByteAt(data, 1), pressure |-> ByteAt(data, 2)]
         [] type = 15 ->
              [type |-> "sysex", channel |-> 0, timestamp |-> timestamp, raw |-> raw]
         [] OTHER ->
              [type |-> "unknown", channel |-> channel, timestamp |-> timestamp,
               raw |-> raw]

-----------------------------------------------------------------------------
(* Chord Recognizer: src/lib/midi/chordRecognizer.ts *)

NOTE_NAMES == <<"C", "C#", "D", "D#", "E", "F", "F#", "G", "G#", "A", "A#", "B">>

CHORD_PATTERNS == <<
    [intervals |-> <<0, 4, 7>>, name |-> "", quality |-> "major"],
    [intervals |-> <<0, 3, 7>>, name |-> "m", quality |-> "minor"],
    [intervals |-> <<0, 4, 8>>, name |-> "aug", quality |-> "augmented"],
    [intervals |-> <<0, 3, 6>>, name |-> "dim", quality |-> "diminished"],
    [intervals |-> <<0, 5, 7>>, name |-> "sus4", quality |-> "suspended 4th"],
    [intervals |-> <<0, 2, 7>>, name |-> "sus2", quality |-> "suspended 2nd"],
    [intervals |-> <<0, 4, 7, 11>>, name |-> "maj7", quality |-> "major 7th"],
    [intervals |-> <<0, 4, 7, 10>>, name |-> "7", quality |-> "dominant 7th"],
    [intervals |-> <<0, 3, 7, 10>>, name |-> "m7", quality |-> "minor 7th"],
    [intervals |-> <<0, 3, 7, 11>>, name |-> "mMaj7", quality |-> "minor major 7th"],
    [intervals |-> <<0, 3, 6, 10>>, name |-> "m7b5", quality |-> "half-diminished"],
    [intervals |-> <<0, 3, 6, 9>>, name |-> "dim7", quality |-> "diminished 7th"],
    [intervals |-> <<0, 4, 8, 10>>, name |-> "aug7", quality |-> "augmented 7th"],
    [intervals |-> <<0, 4, 7, 9>>, name |-> "6", quality |-> "major 6th"],
    [intervals |-> <<0, 3, 7, 9>>, name |-> "m6", quality |-> "minor 6th"],
    [intervals |-> <<0, 4, 7, 10, 14>>, name |-> "9", quality |-> "dominant 9th"],
    [intervals |-> <<0, 4, 7, 11, 14>>, name |-> "maj9", quality |-> "major 9th"],
    [intervals |-> <<0, 3, 7, 10, 14>>, name |-> "m9", quality |-> "minor 9th"],
    [intervals |-> <<0, 4, 7, 14>>, name |-> "add9", quality |-> "add 9th"],
    [intervals |-> <<0, 2, 4, 7>>, name |-> "add9(no7)", quality |-> "major add9"],
    [intervals |-> <<0, 7>>, name |-> "5", quality |-> "power chord"] >>

\* The null ChordResult.
NoChord == [isNull |-> TRUE]

pitchClass(midi) == midi % 12

noteName(pc) == NOTE_NAMES[pc + 1]

intervalsMatch(noteClasses, rootPc, pattern) ==
    IF Len(pattern) > Cardinality(noteClasses) + 1 THEN FALSE
    ELSE \A i \in 1..Len(pattern) : ((rootPc + pattern[i]) % 12) \in noteClasses

\* The inner loop of recognizeChord for one root, from pattern index pi on;
\* best is <<bestSize, root, pattern index>>, with bestSize 0 for no match.
RECURSIVE SearchPatterns(_, _, _, _)
SearchPatterns(noteClasses, rootPc, pi, best) ==
    IF pi > Len(CHORD_PATTERNS) THEN best
    ELSE LET pattern == CHORD_PATTERNS[pi]
             size == Len(pattern.intervals)
         IN IF size < best[1]
            THEN SearchPatterns(noteClasses, rootPc, pi + 1, best)
            ELSE IF intervalsMatch(noteClasses, rootPc, pattern.intervals)
                    /\ size > best[1]
            THEN SearchPatterns(noteClasses, rootPc, pi + 1, <<size, rootPc, pi>>)
            ELSE SearchPatterns(noteClasses, rootPc, pi + 1, best)

\* The outer loop over the candidate roots, from rootPc on.
RECURSIVE ChordSearch(_, _, _)
ChordSearch(noteClasses, rootPc, best) ==
    IF rootPc >= 12 THEN best
    ELSE ChordSearch(noteClasses, rootPc + 1,
                     SearchPatterns(noteClasses, rootPc, 1, best))

\* recognizeChord on the array of held note numbers, given as their set.
recognizeChord(notes) ==
    IF Cardinality(notes) < 2 THEN NoChord
    ELSE LET pitchClasses == {pitchClass(n) : n \in notes}
             bassPc == pitchClass(SetMin(notes))
             best == ChordSearch(pitchClasses, 0, <<0, 0, 0>>)
         IN IF best[1] = 0 THEN NoChord
            ELSE LET rootName == noteName(best[2])
                     suffix == CHORD_PATTERNS[best[3]].name
                     quality == CHORD_PATTERNS[best[3]].quality
                     hasBass == bassPc # best[2]
                 IN [isNull |-> FALSE, root |-> rootName, suffix |-> suffix,
                     quality |-> quality,
                     bass |-> IF hasBass THEN noteName(bassPc) ELSE "",
                     full |-> IF hasBass
                              THEN rootName \o suffix \o "/" \o noteName(bassPc)
                              ELSE rootName \o suffix]

-----------------------------------------------------------------------------
(* Array.prototype.sort: stable.  The comparators of this program are       *)
(* differences of numeric keys, so a sort is given the key of each element. *)

\* Insert the pair <<key, element>> behind every pair whose key is not greater.
RECURSIVE InsertStable(_, _)
InsertStable(x, sorted) ==
    IF sorted = <<>> THEN <<x>>
    ELSE IF x[1] < sorted[Len(sorted)][1]
    THEN InsertStable(x, SubSeq(sorted, 1, Len(sorted) - 1)) \o <<sorted[Len(sorted)]>>
    ELSE sorted \o <<x>>

RECURSIVE SortPairs(_)
SortPairs(s) ==
    IF s = <<>> THEN <<>>
    ELSE InsertStable(s[Len(s)], SortPairs(SubSeq(s, 1, Len(s) - 1)))

\* s sorted by the keys given for its elements (keys[i] is the key of s[i]),
\* elements of equal key keeping their order.
StableSort(s, keys) ==
    LET sorted == SortPairs([i \in 1..Len(s) |-> <<keys[i], s[i]>>])
    IN [i \in 1..Len(s) |-> sorted[i][2]]

-----------------------------------------------------------------------------
(* Tempo Detector and Grid Quantizer: noteQuantizer.ts (src/unnamed/part_010) *)

UnitsPerBeat == 16 * 60000

\* A time in ms at tempo bpm as a beat position: ms / ((60 / bpm) * 1000).
MsToBeats(ms, bpm) == ms * bpm * 16

MIN_BPM == 40

MAX_BPM == 240

GRID_SUBDIVISIONS == <<UnitsPerBeat, UnitsPerBeat \div 2, UnitsPerBeat \div 4,
                       UnitsPerBeat \div 8, UnitsPerBeat \div 16>>

\* 0.04 beat.
MIN_DURATION_BEATS == (4 * UnitsPerBeat) \div 100

\* The default tempo of the early returns.
DEFAULT_BPM == 120

\* The filter of the IOI loop: ioi > 50 && ioi < 4000.
IoiIsValid(ioi) == ioi > 50 /\ ioi < 4000

\* The valid inter-onset intervals onsets[i] - onsets[i-1], i from `i` on.
RECURSIVE ValidIois(_, _)
ValidIois(onsets, i) ==
    IF i > Len(onsets) THEN <<>>
    ELSE LET ioi == onsets[i] - onsets[i - 1]
         IN (IF IoiIsValid(ioi) THEN <<ioi>> ELSE <<>>) \o ValidIois(onsets, i + 1)

\* Candidate tempi are k/2 BPM, k = 80..480; beatMs = 120000 / k.  Scores
\* are kept multiplied by ScoreScale, the 15% tolerance of 120000.
ScoreScale == (15 * 120000) \div 100

\* One IOI's contribution to the score of candidate k/2 BPM.
IoiScore(k, ioi) ==
    LET closestMultiple == RoundDiv(ioi * k, 120000)
        error == Abs(ioi * k - closestMultiple * 120000)
    IN IF closestMultiple < 1 \/ closestMultiple > 8 THEN 0
       ELSE IF error < ScoreScale THEN ScoreScale - error
       ELSE 0

RECURSIVE CandidateScore(_, _, _)
CandidateScore(k, iois, i) ==
    IF i > Len(iois) THEN 0
    ELSE IoiScore(k, iois[i]) + CandidateScore(k, iois, i + 1)

\* The sweep with a later candidate of equal score taking the place of an
\* earlier one.
RECURSIVE Sweep_lastWins(_, _, _, _)
Sweep_lastWins(lo, hi, iois, best) ==
    IF lo > hi THEN best
    ELSE IF lo = hi
    THEN LET score == CandidateScore(lo, iois, 1)
         IN IF score >= best[2] THEN <<lo, score>> ELSE best
    ELSE LET mid == (lo + hi) \div 2
             firstHalf == Sweep_lastWins(lo, mid, iois, best)
         IN IF firstHalf[1] > 0 THEN Sweep_lastWins(mid + 1, hi, iois, firstHalf)
            ELSE firstHalf

\* The sweep loop over the candidates lo..hi entered with the best so far,
\* best = <<bestK, bestScore>>: a candidate replaces the best only with a
\* strictly greater score.  The range is walked in two halves, the second
\* entered with the result of the first; the test on firstHalf[1], which no
\* candidate fails, has TLC finish the first half before it starts the second.
RECURSIVE Sweep(_, _, _, _)
Sweep(lo, hi, iois, best) ==
    IF lo > hi THEN best
    ELSE IF lo = hi
    THEN LET score == CandidateScore(lo, iois, 1)
         IN IF score > best[2] THEN <<lo, score>> ELSE best
    ELSE LET mid == (lo + hi) \div 2
             firstHalf == Sweep(lo, mid, iois, best)
         IN IF firstHalf[1] > 0 THEN Sweep(mid + 1, hi, iois, firstHalf)
            ELSE firstHalf

commonBpms == <<40, 42, 44, 46, 48, 50, 52, 54, 56, 58, 60, 63, 66, 69, 72, 76,
    80, 84, 88, 92, 96, 100, 104, 108, 112, 116, 120, 126, 132, 138, 144, 152, 160,
    168, 176, 184, 192, 200, 208, 216, 224, 232, 240>>

\* commonBpms.reduce(...) from index i on, for bestBpm = bestK / 2.
RECURSIVE ClosestCommon(_, _, _)
ClosestCommon(bestK, i, a) ==
    IF i > Len(commonBpms) THEN a
    ELSE LET b == commonBpms[i]
         IN IF Abs(2 * b - bestK) < Abs(2 * a - bestK)
            THEN ClosestCommon(bestK, i + 1, b)
            ELSE ClosestCommon(bestK, i + 1, a)

\* The sweep entered with a best score of 0 instead of -1.
SweepWinner_fromZero(iois) ==
    Sweep(2 * MIN_BPM, 2 * MAX_BPM, iois, <<2 * DEFAULT_BPM, 0>>)[1]

\* The winning candidate of the sweep, as k = 2 * bestBpm.
SweepWinner(iois) ==
    Sweep(2 * MIN_BPM, 2 * MAX_BPM, iois, <<2 * DEFAULT_BPM, -ScoreScale>>)[1]

\* A snap to the closest common tempo however far it is.
SnapBpm_always(bestK) == ClosestCommon(bestK, 2, commonBpms[1])

\* The final snap: to the closest common tempo if less than 3 BPM away.
SnapBpm(bestK) ==
    LET closest == ClosestCommon(bestK, 2, commonBpms[1])
    IN IF Abs(2 * closest - bestK) < 6 THEN closest ELSE RoundDiv(bestK, 2)

\* detectBPM without the early return on fewer than two valid IOIs.
detectBPM_noMinimum(onsetTimesMs) ==
    IF Len(onsetTimesMs) < 3 THEN DEFAULT_BPM
    ELSE SnapBpm(SweepWinner(ValidIois(onsetTimesMs, 2)))

detectBPM(onsetTimesMs) ==
    IF Len(onsetTimesMs) < 3 THEN DEFAULT_BPM
    ELSE LET iois == ValidIois(onsetTimesMs, 2)
         IN IF Len(iois) < 2 THEN DEFAULT_BPM
            ELSE SnapBpm(SweepWinner(iois))

snapToGrid(beatPosition, subdivision) ==
    RoundDiv(beatPosition, subdivision) * subdivision

RECURSIVE TotalSnapError(_, _, _)
TotalSnapError(beatPositions, sub, i) ==
    IF i > Len(beatPositions) THEN 0
    ELSE Abs(beatPositions[i] - snapToGrid(beatPositions[i], sub))
             + TotalSnapError(beatPositions, sub, i + 1)

\* bestError = Infinity before the first subdivision is tried.
Infinity == -1

RECURSIVE BestSubdivisionFrom(_, _, _, _)
BestSubdivisionFrom(beatPositions, i, bestSub, bestError) ==
    IF i > Len(GRID_SUBDIVISIONS) THEN bestSub
    ELSE LET sub == GRID_SUBDIVISIONS[i]
             totalError == TotalSnapError(beatPositions, sub, 1)
         IN IF bestError = Infinity \/ totalError < bestError
            THEN BestSubdivisionFrom(beatPositions, i + 1, sub, totalError)
            ELSE BestSubdivisionFrom(beatPositions, i + 1, bestSub, bestError)

\* The choice replaced by the initial value of bestSub, a quarter of a beat.
findBestSubdivision_initial(beatPositions) == UnitsPerBeat \div 4

findBestSubdivision(beatPositions) ==
    BestSubdivisionFrom(beatPositions, 1, UnitsPerBeat \div 4, Infinity)

\* The order of quantized.sort, a.startBeat - b.startBeat || a.note - b.note,
\* as one key (note numbers are below 256).
QuantizedKey(q) == q.startBeat * 256 + q.note

\* The callback without the minimum-duration rule.
QuantizeOne_noStretch(note, bpm, subdivision) ==
    [note |-> note.note, velocity |-> note.velocity, channel |-> note.channel,
     startBeat |-> snapToGrid(MsToBeats(note.startMs, bpm), subdivision),
     durationBeats |-> snapToGrid(MsToBeats(note.endMs - note.startMs, bpm),
                                  subdivision)]

\* One note of the quantized.map(...) callback.
QuantizeOne(note, bpm, subdivision) ==
    LET startBeat == snapToGrid(MsToBeats(note.startMs, bpm), subdivision)
        snapped == snapToGrid(MsToBeats(note.endMs - note.startMs, bpm), subdivision)
        durationBeats == IF snapped < MIN_DURATION_BEATS THEN subdivision ELSE snapped
    IN [note |-> note.note, velocity |-> note.velocity, channel |-> note.channel,
        startBeat |-> startBeat, durationBeats |-> durationBeats]

RECURSIVE SeqMax(_)
SeqMax(s) == IF Len(s) = 1 THEN s[1] ELSE Max(s[1], SeqMax(Tail(s)))

quantizeNotes(rawNotes) ==
    IF Len(rawNotes) = 0
    THEN [bpm |-> DEFAULT_BPM, timeSignatureNumerator |-> 4,
          timeSignatureDenominator |-> 4, notes |-> <<>>, totalBeats |-> 0]
    ELSE LET startTime == rawNotes[1].startMs
             normalized == [i \in 1..Len(rawNotes) |->
                               [rawNotes[i] EXCEPT !.startMs = @ - startTime,
                                                   !.endMs = @ - startTime]]
             onsets == Ascending({normalized[i].startMs : i \in 1..Len(normalized)})
             bpm == detectBPM(onsets)
             beatPositions == [i \in 1..Len(normalized) |->
                                  MsToBeats(normalized[i].startMs, bpm)]
             subdivision == findBestSubdivision(beatPositions)
             mapped == [i \in 1..Len(normalized) |->
                           QuantizeOne(normalized[i], bpm, subdivision)]
             quantized == StableSort(mapped, [i \in 1..Len(mapped) |->
                                                 QuantizedKey(mapped[i])])
             lastEndBeat == SeqMax([i \in 1..Len(quantized) |->
                                quantized[i].startBeat + quantized[i].durationBeats])
             beatsPerMeasure == 4 * UnitsPerBeat
         IN [bpm |-> bpm, timeSignatureNumerator |-> 4,
             timeSignatureDenominator |-> 4, notes |-> quantized,
             totalBeats |-> CeilDiv(lastEndBeat, beatsPerMeasure) * beatsPerMeasure]

-----------------------------------------------------------------------------
(* Notation Generator: musicXmlGenerator.ts (src/unnamed/part_010)          *)
(* The MusicXML text is kept as its structure: a document is a record with  *)
(* the title, the encoding date, the tempo and the measures; a measure is   *)
(* the sequence of its <note> elements.                                     *)

PC_TO_STEP == <<
    [step |-> "C", alter |-> 0], [step |-> "C", alter |-> 1],
    [step |-> "D", alter |-> 0], [step |-> "D", alter |-> 1],
    [step |-> "E", alter |-> 0], [step |-> "F", alter |-> 0],
    [step |-> "F", alter |-> 1], [step |-> "G", alter |-> 0],
    [step |-> "G", alter |-> 1], [step |-> "A", alter |-> 0],
    [step |-> "A", alter |-> 1], [step |-> "B", alter |-> 0] >>

DIVISIONS == 16

\* Math.max(1, Math.round(beats * DIVISIONS))
beatsToDivisions(beats) == Max(1, RoundDiv(beats * DIVISIONS, UnitsPerBeat))

DurationTypes == <<
    [type |-> "whole", divs |-> DIVISIONS * 4],
    [type |-> "half", divs |-> DIVISIONS * 2],
    [type |-> "quarter", divs |-> DIVISIONS],
    [type |-> "eighth", divs |-> DIVISIONS \div 2],
    [type |-> "16th", divs |-> DIVISIONS \div 4],
    [type |-> "32nd", divs |-> DIVISIONS \div 8] >>

\* The first loop of divisionsToType: an exact or a dotted match, or none.
RECURSIVE ExactOrDotted(_, _)
ExactOrDotted(divs, i) ==
    IF i > Len(DurationTypes) THEN [type |-> "none", dots |-> 0]
    ELSE LET t == DurationTypes[i]
         IN IF divs = t.divs THEN [type |-> t.type, dots |-> 0]
            ELSE IF divs = RoundDiv(t.divs * 3, 2) THEN [type |-> t.type, dots |-> 1]
            ELSE ExactOrDotted(divs, i + 1)

\* The second loop: the closest type, the quarter unless one is strictly closer.
RECURSIVE ClosestType(_, _, _)
ClosestType(divs, i, best) ==
    IF i > Len(DurationTypes) THEN best
    ELSE LET t == DurationTypes[i]
         IN ClosestType(divs, i + 1,
                IF Abs(divs - t.divs) < Abs(divs - best.divs) THEN t ELSE best)

divisionsToType(divs) ==
    LET match == ExactOrDotted(divs, 1)
    IN IF match.type # "none" THEN match
       ELSE [type |-> ClosestType(divs, 1, DurationTypes[3]).type, dots |-> 0]

midiOctave(note) == (note \div 12) - 1

renderMeasureRest(beatsPerMeasure) ==
    LET divs == beatsToDivisions(beatsPerMeasure)
    IN <<[kind |-> "rest", measure |-> TRUE, duration |-> divs,
          type |-> divisionsToType(divs).type, dots |-> 0]>>

renderRest(divs) ==
    IF divs <= 0 THEN <<>>
    ELSE <<[kind |-> "rest", measure |-> FALSE, duration |-> divs,
            type |-> divisionsToType(divs).type, dots |-> divisionsToType(divs).dots]>>

renderNote(note, divs, type, dots, isChord) ==
    LET pc == note.note % 12
    IN <<[kind |-> "note", chord |-> isChord, step |-> PC_TO_STEP[pc + 1].step,
          alter |-> PC_TO_STEP[pc + 1].alter, octave |-> midiOctave(note.note),
          duration |-> divs, type |-> type, dots |-> dots]>>

\* The grouping loop of renderMeasureContent from index i on: a group runs
\* while the next note starts less than 0.02 beat after the one before it.
RECURSIVE GroupEnd(_, _)
GroupEnd(sorted, i) ==
    IF i + 1 <= Len(sorted)
       /\ 50 * Abs(sorted[i + 1].posInMeasure - sorted[i].posInMeasure) < UnitsPerBeat
    THEN GroupEnd(sorted, i + 1)
    ELSE i

RECURSIVE ChordGroups(_, _)
ChordGroups(sorted, i) ==
    IF i > Len(sorted) THEN <<>>
    ELSE LET last == GroupEnd(sorted, i)
         IN <<SubSeq(sorted, i, last)>> \o ChordGroups(sorted, last + 1)

\* The notes of one chord group, the first plain and the others <chord/>.
RenderGroupNotes(group, chordDivs) ==
    LET t == divisionsToType(chordDivs)
        one(j) == renderNote(group[j].note, chordDivs, t.type, t.dots, j > 1)
        RECURSIVE from(_)
        from(j) == IF j > Len(group) THEN <<>> ELSE one(j) \o from(j + 1)
    IN from(1)

\* The loop over the groups from group g on, with the cursor in divisions;
\* the result is the elements emitted, the trailing rest included.
RECURSIVE RenderGroups(_, _, _, _)
RenderGroups(groups, g, cursor, measureDivs) ==
    IF g > Len(groups)
    THEN IF cursor < measureDivs THEN renderRest(measureDivs - cursor) ELSE <<>>
    ELSE LET group == groups[g]
             groupPosDivs == beatsToDivisions(group[1].posInMeasure)
             gap == IF groupPosDivs > cursor
                    THEN renderRest(groupPosDivs - cursor) ELSE <<>>
             chordDivs == SeqMax([j \in 1..Len(group) |->
                              beatsToDivisions(group[j].note.durationBeats)])
         IN gap \o RenderGroupNotes(group, chordDivs)
                \o RenderGroups(groups, g + 1, groupPosDivs + chordDivs, measureDivs)

PosKey(mn) == mn.posInMeasure

renderMeasureContent(measureNotes, beatsPerMeasure) ==
    LET sorted == StableSort(measureNotes, [i \in 1..Len(measureNotes) |->
                                               PosKey(measureNotes[i])])
    IN RenderGroups(ChordGroups(sorted, 1), 1, 0, beatsToDivisions(beatsPerMeasure))

\* The null string and the empty string a document variable can hold.
NullXml == [kind |-> "null"]

EmptyXml == [kind |-> "empty"]

\* measures[measureIdx].push(...) with measureIdx < 0 raises a TypeError.
ThrownXml == [kind |-> "TypeError"]

\* new Date().toISOString().slice(0, 10): the day the clock reading t falls on.
MsPerDay == 24 * 60 * 60 * 1000

ToISODate(t) == t \div MsPerDay

\* The notes of measure idx, in the order of result.notes.
MeasureNotes(notes, idx, beatsPerMeasure) ==
    LET mine == SelectSeq(notes, LAMBDA n : n.startBeat \div beatsPerMeasure = idx)
    IN [i \in 1..Len(mine) |->
           [note |-> mine[i],
            posInMeasure |-> mine[i].startBeat - idx * beatsPerMeasure]]

generateMusicXml(result, title, date) ==
    LET beatsPerMeasure == result.timeSignatureNumerator * UnitsPerBeat
        notes == result.notes
        numMeasures == Max(1, CeilDiv(result.totalBeats, beatsPerMeasure))
        Measure(idx) ==
            LET measureNotes == MeasureNotes(notes, idx, beatsPerMeasure)
            IN [number |-> idx + 1,
                attributes |-> (idx = 0),
                elements |-> IF Len(measureNotes) = 0
                             THEN renderMeasureRest(beatsPerMeasure)
                             ELSE renderMeasureContent(measureNotes, beatsPerMeasure)]
    IN IF Len(notes) = 0 THEN EmptyXml
       ELSE IF \E i \in 1..Len(notes) : notes[i].startBeat \div beatsPerMeasure < 0
       THEN ThrownXml
       ELSE [kind |-> "xml", title |-> title, encodingDate |-> date,
             divisions |-> DIVISIONS, bpm |-> result.bpm,
             beats |-> result.timeSignatureNumerator,
             beatType |-> result.timeSignatureDenominator,
             measures |-> [m \in 1..numMeasures |-> Measure(m - 1)]]

-----------------------------------------------------------------------------
(* State after construction. *)

\* null for a number | null field (both stores test such fields for truth).
Null == 0

NoPort == "none"

InitMidi ==
    /\ inputPortId = NoPort
    /\ isConnected = FALSE
    /\ handlerAttached = FALSE
    /\ activeNotes = EmptyMap
    /\ ccValues = EmptyMap
    /\ pitchBend = 0
    /\ currentChord = NoChord
    /\ timers = <<>>

InitSession ==
    /\ recordingState = "idle"
    /\ recordingStartMs = Null
    /\ recordingDurationMs = 0
    /\ capturedNotes = <<>>
    /\ musicXml = NullXml
    /\ detectedBpm = Null

InitApp ==
    /\ activeTab = "visualizer"
    /\ heldRef = EmptyMap
    /\ prevActiveRef = {}
    /\ pendingEffects = {}
    /\ allNotes = <<>>

InitHistory ==
    /\ lastNoteOn = EmptyMap
    /\ lastCC = EmptyMap
    /\ takeOpen = EmptyMap
    /\ takeClosed = <<>>

NoEvent == [type |-> "pending"]

IdleDecode ==
    /\ dInput = [data |-> <<0>>, timestamp |-> 0]
    /\ dEvent = NoEvent

IdleNotate ==
    /\ qTake = <<>>
    /\ qResult = quantizeNotes(<<>>)
    /\ qDoc = NullXml
    /\ qDoc2 = NullXml
    /\ qStage = "idle"

IdleTempo ==
    /\ tOnsets = <<>>
    /\ tIois = <<>>
    /\ tBpm = DEFAULT_BPM
    /\ tStage = "idle"

IdleChord ==
    /\ cNotes = {}
    /\ cChord = NoChord
    /\ cStage = "idle"

InitProgram == InitMidi /\ now = 1 /\ InitSession /\ InitApp /\ InitHistory

-----------------------------------------------------------------------------
(* The decoder applied to one message. *)

StatusBytes == 0..255

DataBytes == (0..MaxDataByte) \cup {64, 127, 128, 255}

DecodeInputs ==
    { [data |-> d, timestamp |-> t] :
        d \in { <<st>> : st \in StatusBytes }
              \cup { <<st, d1>> : st \in StatusBytes, d1 \in DataBytes }
              \cup { <<st, d1, d2>> : st \in StatusBytes, d1 \in DataBytes,
                                      d2 \in DataBytes },
        t \in {0, MaxTime} }

InitDecode ==
    /\ InitProgram /\ IdleNotate /\ IdleTempo /\ IdleChord
    /\ dInput \in DecodeInputs
    /\ dEvent = NoEvent

Decode ==
    /\ dEvent = NoEvent
    /\ dEvent' = parseMidiMessage(dInput.data, dInput.timestamp)
    /\ UNCHANGED <<midiVars, now, sessionVars, activeTab, hookVars, historyVars,
                   dInput, notateVars, tempoVars, chordVars>>

NextDecode == Decode

SpecDecode == InitDecode /\ [][NextDecode]_vars

-----------------------------------------------------------------------------
(* The quantizer and the notation generator applied to one finalized take. *)

TakeNotes == {60, 64}

TakeStarts == {0, 250, 260, 500, 1500, 2000}

TakeLengths == {0, 10, 500, 620, 1000, 2500}

TakeEvents ==
    { [note |-> n, velocity |-> 100, channel |-> 1, startMs |-> st, endMs |-> st + d] :
        n \in TakeNotes, st \in TakeStarts, d \in TakeLengths }

\* The stop effect sorts the take by startMs before it hands it on.
IsSortedByStart(take) ==
    \A i \in 1..(Len(take) - 1) : take[i].startMs <= take[i + 1].startMs

Takes ==
    UNION { { take \in [1..n -> TakeEvents] : IsSortedByStart(take) } :
            n \in 0..MaxTakeLen }

TITLE == "Captured Performance"

InitNotate ==
    /\ InitProgram /\ IdleDecode /\ IdleTempo /\ IdleChord
    /\ qTake \in Takes
    /\ qResult = quantizeNotes(<<>>)
    /\ qDoc = NullXml
    /\ qDoc2 = NullXml
    /\ qStage = "captured"

Quantize ==
    /\ qStage = "captured"
    /\ qResult' = quantizeNotes(qTake)
    /\ qStage' = "quantized"
    /\ UNCHANGED <<midiVars, now, sessionVars, activeTab, hookVars, historyVars,
                   decodeVars, tempoVars, chordVars, qTake, qDoc, qDoc2>>

Notate ==
    /\ qStage = "quantized"
    /\ qDoc' = generateMusicXml(qResult, TITLE, ToISODate(now))
    /\ qStage' = "notated"
    /\ UNCHANGED <<midiVars, now, sessionVars, activeTab, hookVars, historyVars,
                   decodeVars, tempoVars, chordVars, qTake, qResult, qDoc2>>

\* Clock readings of the two runs: the same day, or the day after.
NotateClocks == {1, 2, MsPerDay + 1}

\* Time goes by between the two runs.
Elapse(later) ==
    /\ qStage = "notated"
    /\ later > now
    /\ now' = later
    /\ UNCHANGED <<midiVars, sessionVars, activeTab, hookVars, historyVars,
                   decodeVars, tempoVars, chordVars, notateVars>>

\* quantizeNotes and generateMusicXml run on the same take a second time.
Renotate ==
    /\ qStage = "notated"
    /\ qDoc2' = generateMusicXml(quantizeNotes(qTake), TITLE, ToISODate(now))
    /\ qStage' = "renotated"
    /\ UNCHANGED <<midiVars, now, sessionVars, activeTab, hookVars, historyVars,
                   decodeVars, tempoVars, chordVars, qTake, qResult, qDoc>>

NextNotate ==
    \/ Quantize
    \/ Notate
    \/ \E later \in NotateClocks : Elapse(later)
    \/ Renotate

SpecNotate == InitNotate /\ [][NextNotate]_vars

\* quantizeNotes and generateMusicXml as exported functions: the list comes
\* from any caller, in any order.
AnyOrderTakes == UNION { [1..n -> TakeEvents] : n \in 0..MaxTakeLen }

InitAnyOrder ==
    /\ InitProgram /\ IdleDecode /\ IdleTempo /\ IdleChord
    /\ qTake \in AnyOrderTakes
    /\ qResult = quantizeNotes(<<>>)
    /\ qDoc = NullXml
    /\ qDoc2 = NullXml
    /\ qStage = "captured"

SpecAnyOrder == InitAnyOrder /\ [][NextNotate]_vars

-----------------------------------------------------------------------------
(* The tempo detector applied to one list of onsets. *)

MaxOnsets == 4

\* Gaps between successive onsets, in ms: around both ends of the IOI filter,
\* and steady and dotted pulses and one off every common tempo in between.
OnsetGaps == {0, 50, 51, 407, 500, 750, 3999, 4000}

\* The onsets that start at 0 and follow the gaps.
RECURSIVE OnsetsOf(_, _)
OnsetsOf(gaps, first) ==
    IF Len(gaps) = 0 THEN <<first>>
    ELSE <<first>> \o OnsetsOf(Tail(gaps), first + Head(gaps))

\* Ten onsets 500 ms apart.
SteadyOnsets == [i \in 1..10 |-> (i - 1) * 500]

OnsetLists ==
    {<<>>, SteadyOnsets}
    \cup UNION { { OnsetsOf(gaps, 0) : gaps \in [1..n -> OnsetGaps] } :
                 n \in 0..(MaxOnsets - 1) }

InitTempo ==
    /\ InitProgram /\ IdleDecode /\ IdleNotate /\ IdleChord
    /\ tOnsets \in OnsetLists
    /\ tIois = <<>>
    /\ tBpm = DEFAULT_BPM
    /\ tStage = "given"

\* One call of detectBPM; tIois keeps the intervals its filter let through.
DetectTempo ==
    /\ tStage = "given"
    /\ tIois' = (IF Len(tOnsets) < 3 THEN <<>> ELSE ValidIois(tOnsets, 2))
    /\ tBpm' = detectBPM(tOnsets)
    /\ tStage' = "detected"
    /\ UNCHANGED <<midiVars, now, sessionVars, activeTab, hookVars, historyVars,
                   decodeVars, notateVars, tOnsets, chordVars>>

NextTempo == DetectTempo

SpecTempo == InitTempo /\ [][NextTempo]_vars

-----------------------------------------------------------------------------
(* The chord recognizer applied to one set of held notes. *)

MaxHeld == 4

\* A2, C3, D3, D#3, E3, G3 and A#3.
ChordKeys == {57, 60, 62, 63, 64, 67, 70}

HeldSets == { held \in SUBSET ChordKeys : Cardinality(held) <= MaxHeld }

InitChord ==
    /\ InitProgram /\ IdleDecode /\ IdleNotate /\ IdleTempo
    /\ cNotes \in HeldSets
    /\ cChord = NoChord
    /\ cStage = "held"

\* One call of recognizeChord.
Recognize ==
    /\ cStage = "held"
    /\ cChord' = recognizeChord(cNotes)
    /\ cStage' = "recognized"
    /\ UNCHANGED <<midiVars, now, sessionVars, activeTab, hookVars, historyVars,
                   decodeVars, notateVars, tempoVars, cNotes>>

NextChord == Recognize

SpecChord == InitChord /\ [][NextChord]_vars

-----------------------------------------------------------------------------
(* Properties of the decoder. *)

Decoded == dEvent # NoEvent

\* C2: parseMidiMessage is total on 1..3 bytes: it returns one event of a known
\* type whose raw field is the input bytes and whose timestamp is the one given.
C2_DecodeTotal ==
    Decoded =>
        /\ dEvent.type \in MidiMessageType
        /\ dEvent.raw = dInput.data
        /\ dEvent.timestamp = dInput.timestamp

\* C2 witness: a truncated channel message with out-of-range bytes was decoded.
C2_Witness ==
    /\ Decoded
    /\ dInput.data = <<144, 255>>
    /\ dEvent.raw = <<144, 255>>

\* The data bytes a channel message of this status needs besides the status.
DataBytesNeeded(status) ==
    IF status \div 16 \in {8, 9, 10, 11, 14} THEN 2
    ELSE IF status \div 16 \in {12, 13} THEN 1
    ELSE 0

Truncated(data) == Len(data) - 1 < DataBytesNeeded(data[1])

Unrecognized(data) == data[1] \div 16 < 8

\* C3: unrecognized or truncated input decodes to an unknown event carrying the
\* raw bytes.
C3_MalformedIsUnknown ==
    (Decoded /\ (Unrecognized(dInput.data) \/ Truncated(dInput.data))) =>
        /\ dEvent.type = "unknown"
        /\ dEvent.raw = dInput.data

-----------------------------------------------------------------------------
(* Properties of the notation document. *)

Notated == qStage = "notated" /\ qDoc.kind = "xml"

\* The durations a measure's elements add up to: every rest, and every chord
\* group once (its first note; the others carry <chord/>).
MeasureDuration(measure) ==
    SeqSum([i \in 1..Len(measure.elements) |->
        LET e == measure.elements[i]
        IN IF e.kind = "rest" \/ ~e.chord THEN e.duration ELSE 0])

MeasureCapacity == 4 * DIVISIONS

\* C1: in every generated document every measure's element durations add up
\* to the measure's capacity of 4 beats (64 divisions).
C1_MeasuresFilled ==
    Notated =>
        \A m \in 1..Len(qDoc.measures) :
            MeasureDuration(qDoc.measures[m]) = MeasureCapacity

-----------------------------------------------------------------------------
(* midiStore actions: src/unnamed/part_007.  Each returns the new map.      *)

Keys(m) == DOMAIN m

\* noteOff that forgets to delete the entry.
noteOff_keeps(notes, note) == notes

\* noteOn that leaves the entry of a note already held as it is.
noteOn_keepsFirst(notes, note, velocity, channel, timestamp) ==
    IF note \in Keys(notes) THEN notes
    ELSE MapSet(notes, note,
                [velocity |-> velocity, channel |-> channel, timestamp |-> timestamp])

\* noteOn: next.set(note, { velocity, channel, timestamp })
noteOn(notes, note, velocity, channel, timestamp) ==
    MapSet(notes, note,
           [velocity |-> velocity, channel |-> channel, timestamp |-> timestamp])

\* noteOff: next.delete(note)
noteOff(notes, note) == MapDelete(notes, note)

\* setCCValue: next.set(cc, { value, timestamp })
setCCValue(ccs, cc, value, timestamp) ==
    MapSet(ccs, cc, [value |-> value, timestamp |-> timestamp])

-----------------------------------------------------------------------------
(* What the properties remember of the run; none of it is read by an action *)
(* of the program.                                                          *)

\* The held-note map as the raw bytes define it: a note message is a status
\* 0x8n or 0x9n with a note byte; it sounds if it is 0x9n with velocity > 0.
NoteHistory(hist, data, timestamp) ==
    LET kind == data[1] \div 16
    IN IF kind \in {8, 9} /\ Len(data) >= 2
       THEN IF kind = 9 /\ Len(data) >= 3 /\ data[3] > 0
            THEN MapSet(hist, data[2], [velocity |-> data[3],
                                        channel |-> (data[1] % 16) + 1,
                                        timestamp |-> timestamp])
            ELSE MapDelete(hist, data[2])
       ELSE hist

\* The controller map as the raw bytes define it (status 0xBn).
CCHistory(hist, data, timestamp) ==
    IF data[1] \div 16 = 11
    THEN MapSet(hist, ByteAt(data, 1),
                [value |-> ByteAt(data, 2), timestamp |-> timestamp])
    ELSE hist

\* Notes that became held, and notes that stopped being held, in a step from
\* the held-note map before to the one after.
Pressed(before, after) == Keys(after) \ Keys(before)

Released(before, after) == Keys(before) \ Keys(after)

\* The presses of this take not yet released, after a step of a recording.
TakeOpenAfter(before, after) ==
    LET pressed == Pressed(before, after)
        stillOpen == Keys(takeOpen) \ Released(before, after)
    IN [n \in stillOpen \cup pressed |->
           IF n \in pressed
           THEN [velocity |-> after[n].velocity, channel |-> after[n].channel]
           ELSE takeOpen[n]]

\* The press/release pairs completed in this take, after such a step.
TakeClosedAfter(before, after) ==
    LET done == Ascending(Released(before, after) \cap Keys(takeOpen))
    IN takeClosed \o [i \in 1..Len(done) |->
                         [note |-> done[i], velocity |-> takeOpen[done[i]].velocity,
                          channel |-> takeOpen[done[i]].channel]]

-----------------------------------------------------------------------------
(* useMidi: src/src/hooks/useMidi.ts, and App: src/unnamed/part_000         *)
(*                                                                          *)
(* Scheduling.  Every handler below is one task of the event loop.  React   *)
(* commits the render a handler's store update asks for, and runs the       *)
(* effects of useNoteCapture, before the next task (RunEffects); setTimeout *)
(* callbacks are tasks of their own and run in the order they were set.     *)
(* The session and recent-event logs of the message handler are write-only  *)
(* for this pipeline and are left out.                                      *)
(* The front end is React 19 with Zustand v5 (src/unnamed/part_000, README):  *)
(* a store update made outside a React event is rendered, and its effects   *)
(* are run, at the end of the task that made it.                            *)

PORT == "nord"

SHEET_TAB == "sheetmusic"

\* The tabs of the toolbar; every tab but the Sheet Music one leaves
\* SheetMusicPanel unmounted, and one of those stands for them all.
TABS == {"visualizer", SHEET_TAB}

HookMounted == activeTab = SHEET_TAB

Settled == pendingEffects = {}

\* connectToPort(portId), from the port <select> shown while not connected.
ConnectToPort ==
    /\ Settled
    /\ ~isConnected
    /\ inputPortId' = PORT
    /\ isConnected' = TRUE
    /\ handlerAttached' = TRUE
    /\ UNCHANGED <<activeNotes, ccValues, pitchBend, currentChord, timers, now,
                   sessionVars, activeTab, hookVars, historyVars, decodeVars, tempoVars, chordVars,
                   notateVars>>

\* disconnect(), from the Disconnect button shown while connected.
Disconnect ==
    /\ Settled
    /\ isConnected
    /\ handlerAttached' = FALSE
    /\ isConnected' = FALSE
    /\ UNCHANGED <<inputPortId, activeNotes, ccValues, pitchBend, currentChord,
                   timers, now, sessionVars, activeTab, hookVars, historyVars,
                   decodeVars, tempoVars, chordVars, notateVars>>

\* input.onstatechange with input.state === "disconnected"; the callback is
\* installed by connectToPort and never removed.
PortDisconnected ==
    /\ Settled
    /\ inputPortId # NoPort
    /\ isConnected
    /\ isConnected' = FALSE
    /\ UNCHANGED <<inputPortId, handlerAttached, activeNotes, ccValues, pitchBend,
                   currentChord, timers, now, sessionVars, activeTab, hookVars,
                   historyVars, decodeVars, tempoVars, chordVars, notateVars>>

\* The switch of input.onmidimessage on the decoded event: the new held-note
\* map, controller map and pitch bend.
NotesAfter(parsed) ==
    CASE parsed.type = "noteOn" ->
            noteOn(activeNotes, parsed.note, parsed.velocity, parsed.channel,
                   parsed.timestamp)
      [] parsed.type = "noteOff" -> noteOff(activeNotes, parsed.note)
      [] OTHER -> activeNotes

\* input.onmidimessage for one message.
OnMidiMessage(data) ==
    LET parsed == parseMidiMessage(data, now)
        isNote == parsed.type \in {"noteOn", "noteOff"}
        after == NotesAfter(parsed)
        recording == recordingState = "recording"
    IN /\ Settled
       /\ handlerAttached
       /\ isNote => Len(timers) < MaxTimers
       /\ (recording /\ Released(activeNotes, after) \cap Keys(takeOpen) # {})
              => Len(takeClosed) < MaxCaptured
       /\ activeNotes' = after
       /\ ccValues' = IF parsed.type = "controlChange"
                      THEN setCCValue(ccValues, parsed.controller, parsed.value,
                                      parsed.timestamp)
                      ELSE ccValues
       /\ pitchBend' = IF parsed.type = "pitchBend" THEN parsed.bend ELSE pitchBend
       /\ timers' = IF isNote THEN Append(timers, parsed.type) ELSE timers
       \* a note message replaces the activeNotes Map, a dependency of the
       \* transition effect
       /\ pendingEffects' = IF isNote /\ HookMounted THEN {"transition"} ELSE {}
       /\ lastNoteOn' = NoteHistory(lastNoteOn, data, now)
       /\ lastCC' = CCHistory(lastCC, data, now)
       /\ takeOpen' = IF recording THEN TakeOpenAfter(activeNotes, after) ELSE takeOpen
       /\ takeClosed' = IF recording THEN TakeClosedAfter(activeNotes, after)
                        ELSE takeClosed
       /\ UNCHANGED <<inputPortId, isConnected, handlerAttached, currentChord, now,
                      sessionVars, activeTab, heldRef, prevActiveRef, allNotes,
                      decodeVars, tempoVars, chordVars, notateVars>>

\* Callbacks of which the note-off one leaves the published chord as it is.
DeferredChord_onOnly(kind) ==
    IF kind = "noteOn" THEN recognizeChord(Keys(activeNotes)) ELSE currentChord

\* The chord a setTimeout callback publishes; the note-on and the note-off
\* callbacks are written differently.
DeferredChord(kind) ==
    LET notes == Keys(activeNotes)
    IN IF kind = "noteOn" THEN recognizeChord(notes)
       ELSE IF Cardinality(notes) >= 2 THEN recognizeChord(notes) ELSE NoChord

\* The oldest setTimeout(..., 0) callback runs.
RunTimer ==
    /\ Settled
    /\ timers # <<>>
    /\ currentChord' = DeferredChord(Head(timers))
    /\ timers' = Tail(timers)
    /\ UNCHANGED <<inputPortId, isConnected, handlerAttached, activeNotes, ccValues,
                   pitchBend, now, sessionVars, activeTab, hookVars, historyVars,
                   decodeVars, tempoVars, chordVars, notateVars>>

\* Time passes.
Tick ==
    /\ now < MaxTime
    /\ now' = now + 1
    /\ UNCHANGED <<midiVars, sessionVars, activeTab, hookVars, historyVars,
                   decodeVars, tempoVars, chordVars, notateVars>>

\* A toolbar tab button: setActiveTab(tab).  Leaving the Sheet Music tab
\* unmounts SheetMusicPanel and with it the refs of useNoteCapture; entering
\* it mounts a fresh hook instance, whose effects all run once.
SetActiveTab(tab) ==
    /\ Settled
    /\ tab # activeTab
    /\ activeTab' = tab
    /\ heldRef' = EmptyMap
    /\ prevActiveRef' = {}
    /\ pendingEffects' = IF tab = SHEET_TAB THEN {"transition", "stop"} ELSE {}
    /\ UNCHANGED <<midiVars, now, sessionVars, allNotes, historyVars, decodeVars, tempoVars, chordVars,
                   notateVars>>

-----------------------------------------------------------------------------
(* sessionStore: src/unnamed/part_006.  A store action maps the store's     *)
(* state s, a record of its six fields, to the new state.                   *)

Session ==
    [recordingState |-> recordingState, recordingStartMs |-> recordingStartMs,
     recordingDurationMs |-> recordingDurationMs, capturedNotes |-> capturedNotes,
     musicXml |-> musicXml, detectedBpm |-> detectedBpm]

SetSession(s) ==
    /\ recordingState' = s.recordingState
    /\ recordingStartMs' = s.recordingStartMs
    /\ recordingDurationMs' = s.recordingDurationMs
    /\ capturedNotes' = s.capturedNotes
    /\ musicXml' = s.musicXml
    /\ detectedBpm' = s.detectedBpm

\* startRecording that keeps the notes of the take before.
startRecording_keepsNotes(s, dateNow) ==
    [s EXCEPT !.recordingState = "recording", !.recordingStartMs = dateNow,
              !.recordingDurationMs = 0, !.musicXml = NullXml,
              !.detectedBpm = Null]

startRecording(s, dateNow) ==
    [recordingState |-> "recording", recordingStartMs |-> dateNow,
     recordingDurationMs |-> 0, capturedNotes |-> <<>>, musicXml |-> NullXml,
     detectedBpm |-> Null]

stopRecording(s, dateNow) ==
    [s EXCEPT !.recordingState = "stopped",
              !.recordingDurationMs = IF s.recordingStartMs # Null
                                      THEN dateNow - s.recordingStartMs
                                      ELSE s.recordingDurationMs]

\* clearCapture that leaves the document and the tempo in the store.
clearCapture_keepsDocument(s) ==
    [recordingState |-> "idle", recordingStartMs |-> Null,
     recordingDurationMs |-> 0, capturedNotes |-> <<>>, musicXml |-> s.musicXml,
     detectedBpm |-> s.detectedBpm]

clearCapture(s) ==
    [recordingState |-> "idle", recordingStartMs |-> Null,
     recordingDurationMs |-> 0, capturedNotes |-> <<>>, musicXml |-> NullXml,
     detectedBpm |-> Null]

addCapturedNote(s, note) == [s EXCEPT !.capturedNotes = Append(@, note)]

setMusicXml(s, xml, bpm) == [s EXCEPT !.musicXml = xml, !.detectedBpm = bpm]

-----------------------------------------------------------------------------
(* CaptureControls: src/src/components/sheetmusic/CaptureControls.tsx       *)
(* The buttons exist while SheetMusicPanel is mounted.                      *)

\* A Record button that is shown in every recording state.
RecordShown_always == TRUE

\* "Record" is rendered while idle, "Record Again" while stopped.
RecordShown == recordingState = "idle" \/ recordingState = "stopped"

\* "Stop" is rendered while recording.
StopShown == recordingState = "recording"

\* "Clear" is rendered while stopped.
ClearShown == recordingState = "stopped"

\* A click changes recordingState, a dependency of the stop effect.
ClickRecord ==
    /\ Settled /\ HookMounted
    /\ RecordShown
    /\ SetSession(startRecording(Session, now))
    /\ pendingEffects' = {"stop"}
    /\ takeOpen' = EmptyMap
    /\ takeClosed' = <<>>
    /\ allNotes' = <<>>
    /\ UNCHANGED <<midiVars, now, activeTab, heldRef, prevActiveRef, lastNoteOn,
                   lastCC, decodeVars, tempoVars, chordVars, notateVars>>

ClickStop ==
    /\ Settled /\ HookMounted
    /\ StopShown
    /\ SetSession(stopRecording(Session, now))
    /\ pendingEffects' = {"stop"}
    /\ UNCHANGED <<midiVars, now, activeTab, heldRef, prevActiveRef, allNotes,
                   historyVars, decodeVars, tempoVars, chordVars, notateVars>>

ClickClear ==
    /\ Settled /\ HookMounted
    /\ ClearShown
    /\ SetSession(clearCapture(Session))
    /\ pendingEffects' = {"stop"}
    /\ takeOpen' = EmptyMap
    /\ takeClosed' = <<>>
    /\ allNotes' = <<>>
    /\ UNCHANGED <<midiVars, now, activeTab, heldRef, prevActiveRef, lastNoteOn,
                   lastCC, decodeVars, tempoVars, chordVars, notateVars>>

\* The setInterval(tickDuration, 1000) callback only refreshes the duration
\* shown while recording; stopRecording computes the final value itself.

-----------------------------------------------------------------------------
(* useNoteCapture: src/unnamed/part_011                                     *)

\* "New note-ons": heldRef after the first forEach.
OpenPending(held, active, prev, dateNow) ==
    [n \in Keys(held) \cup (Keys(active) \ prev) |->
        IF n \in Keys(active) \ prev
        THEN [startMs |-> dateNow, velocity |-> active[n].velocity,
              channel |-> active[n].channel]
        ELSE held[n]]

\* "Note-offs": the notes the second forEach closes.
ClosedNow(held, active, prev) == (prev \ Keys(active)) \cap Keys(held)

\* The CapturedNote a pending entry closes into.
CloseNote(noteNum, held, recStart, dateNow) ==
    [note |-> noteNum, velocity |-> held.velocity, channel |-> held.channel,
     startMs |-> held.startMs - recStart, endMs |-> dateNow - recStart]

RECURSIVE AddAll(_, _)
AddAll(s, notes) ==
    IF notes = <<>> THEN s ELSE AddAll(addCapturedNote(s, Head(notes)), Tail(notes))

\* The transition effect: the session store, heldRef and prevActiveRef after it.
TransitionEffect(s, held, prev, active, dateNow) ==
    IF s.recordingState # "recording"
    THEN [session |-> s, held |-> held, prev |-> Keys(active)]
    ELSE IF s.recordingStartMs = Null
    THEN [session |-> s, held |-> held, prev |-> prev]
    ELSE LET opened == OpenPending(held, active, prev, dateNow)
             closed == Ascending(ClosedNow(opened, active, prev))
             notes == [i \in 1..Len(closed) |->
                          CloseNote(closed[i], opened[closed[i]],
                                    s.recordingStartMs, dateNow)]
         IN [session |-> AddAll(s, notes),
             held |-> [n \in Keys(opened) \ ClosedNow(opened, active, prev) |->
                          opened[n]],
             prev |-> Keys(active)]

\* A flush that closes nothing.
FlushHeld_none(held, recStart, dateNow) == <<>>

\* "Flush still-held notes": the notes the stop effect closes.
FlushHeld(held, recStart, dateNow) ==
    IF recStart = Null THEN <<>>
    ELSE LET ns == Ascending(Keys(held))
         IN [i \in 1..Len(ns) |-> CloseNote(ns[i], held[ns[i]], recStart, dateNow)]

StartKey(n) == n.startMs

\* The take the stop effect hands on: [...storeNotes, ...flushed] by startMs.
FinalizedTake(s, held, dateNow) ==
    LET notes == s.capturedNotes \o FlushHeld(held, s.recordingStartMs, dateNow)
    IN StableSort(notes, [i \in 1..Len(notes) |-> StartKey(notes[i])])

\* The stop effect once recordingState is "stopped": the session store after it.
StopEffect(s, held, dateNow) ==
    LET take == FinalizedTake(s, held, dateNow)
        result == quantizeNotes(take)
        xml == generateMusicXml(result, TITLE, ToISODate(dateNow))
    IN IF Len(take) = 0 THEN setMusicXml(s, EmptyXml, DEFAULT_BPM)
       ELSE IF xml = ThrownXml THEN s
       ELSE setMusicXml(s, xml, result.bpm)

\* React runs the pending effects of useNoteCapture, in the order they are
\* declared: the transition effect, then the stop effect.
RunEffects ==
    LET t == IF "transition" \in pendingEffects
             THEN TransitionEffect(Session, heldRef, prevActiveRef, activeNotes, now)
             ELSE [session |-> Session, held |-> heldRef, prev |-> prevActiveRef]
        stopping == "stop" \in pendingEffects /\ t.session.recordingState = "stopped"
    IN /\ ~Settled
       /\ pendingEffects' = {}
       /\ prevActiveRef' = t.prev
       /\ IF stopping
          THEN /\ SetSession(StopEffect(t.session, t.held, now))
               /\ allNotes' = FinalizedTake(t.session, t.held, now)
               /\ heldRef' = EmptyMap
          ELSE /\ SetSession(t.session)
               /\ allNotes' = allNotes
               /\ heldRef' = t.held
       /\ UNCHANGED <<midiVars, now, activeTab, historyVars, decodeVars, tempoVars, chordVars, notateVars>>

-----------------------------------------------------------------------------
(* The application. *)

\* The messages of the performance: two keys, one channel.
PerformanceInputs ==
    { <<144, n, 100>> : n \in {60, 64} } \cup { <<128, n, 0>> : n \in {60, 64} }

Init == InitProgram /\ IdleDecode /\ IdleNotate /\ IdleTempo /\ IdleChord

Next ==
    \/ ConnectToPort
    \/ \E data \in PerformanceInputs : OnMidiMessage(data)
    \/ RunTimer
    \/ Tick
    \/ \E tab \in TABS : SetActiveTab(tab)
    \/ ClickRecord
    \/ ClickStop
    \/ ClickClear
    \/ RunEffects

Spec == Init /\ [][Next]_vars

-----------------------------------------------------------------------------
(* The Live State Tracker alone: the device, its messages and the deferred   *)
(* chord callbacks; the Sheet Music tab is never opened.                     *)

\* Note messages on two channels (a zero-velocity note-on and a note-off on
\* another channel than the press among them), a controller, a pitch bend, a
\* program change, and two messages cut short.
TrackerInputs ==
    { <<144, 60, 100>>, <<145, 60, 90>>, <<129, 60, 0>>,
      <<144, 67, 100>>, <<144, 67, 0>>,
      <<224, 0, 64>>, <<192, 5>>, <<144, 60>>, <<176, 7>> }
    \cup { <<176, 7, v>> : v \in 0..MaxDataByte }

NextTracker ==
    \/ ConnectToPort
    \/ Disconnect
    \/ PortDisconnected
    \/ \E data \in TrackerInputs : OnMidiMessage(data)
    \/ RunTimer
    \/ Tick

SpecTracker == Init /\ [][NextTracker]_vars

-----------------------------------------------------------------------------
(* Properties of the Live State Tracker. *)

\* C4: after any sequence of handled messages the held-note map holds exactly
\* the notes whose latest note message was a note-on with velocity > 0, with
\* that message's velocity, channel and timestamp, and the controller map holds
\* each controller's latest value and timestamp.
C4_MapsFollowMessages ==
    /\ activeNotes = lastNoteOn
    /\ ccValues = lastCC

\* C4 witness: note 60 was pressed on channel 1 and again on channel 2, note 67
\* was pressed and released (the chord of both is still shown), and controller
\* 7 was set to 1.
C4_Witness ==
    /\ Keys(activeNotes) = {60}
    /\ activeNotes[60].channel = 2
    /\ currentChord = recognizeChord({60, 67})
    /\ 7 \in Keys(ccValues)
    /\ ccValues[7].value = 1

\* C5: once a note message has been handled the published chord is
\* recognizeChord of the held-note set that results from it.
C5_ChordCurrent == currentChord = recognizeChord(Keys(activeNotes))

-----------------------------------------------------------------------------
(* Properties of the Capture Recorder. *)

AllowedTransitions ==
    { <<"idle", "recording">>, <<"recording", "stopped">>,
      <<"stopped", "recording">>, <<"stopped", "idle">> }

IsPrefix(a, b) == Len(a) <= Len(b) /\ SubSeq(b, 1, Len(a)) = a

\* C6: recordingState changes only along idle -> recording, recording ->
\* stopped, stopped -> recording and stopped -> idle, and a recording is not
\* restarted while it runs: its start time stays and its notes are kept.
C6_Transitions ==
    [][/\ recordingState' # recordingState =>
              <<recordingState, recordingState'>> \in AllowedTransitions
       /\ (recordingState = "recording" /\ recordingState' = "recording") =>
              /\ recordingStartMs' = recordingStartMs
              /\ IsPrefix(capturedNotes, capturedNotes')]_vars

\* C6 witness: a recording ran from the first to the last instant and stopped.
C6_Witness ==
    /\ recordingState = "stopped"
    /\ recordingStartMs = 1
    /\ recordingDurationMs = MaxTime - 1

\* C7: while recording, once the effects of a message have run, the pending
\* entries are the notes pressed in the take and not yet released, and the
\* captured notes are the press/release pairs completed in the take, one each,
\* with the note number, the velocity and channel of the press, and
\* 0 <= startMs <= endMs.
C7_PressReleaseCaptured ==
    (Settled /\ recordingState = "recording") =>
        /\ Keys(heldRef) = Keys(takeOpen)
        /\ Len(capturedNotes) = Len(takeClosed)
        /\ \A i \in 1..Len(capturedNotes) :
               i <= Len(takeClosed) =>
                   /\ capturedNotes[i].note = takeClosed[i].note
                   /\ capturedNotes[i].velocity = takeClosed[i].velocity
                   /\ capturedNotes[i].channel = takeClosed[i].channel
                   /\ 0 <= capturedNotes[i].startMs
                   /\ capturedNotes[i].startMs <= capturedNotes[i].endMs

\* The step in which the stop effect processes a click on Stop.
StopProcessed ==
    /\ pendingEffects = {"stop"}
    /\ recordingState = "stopped"
    /\ pendingEffects' = {}

TakeDiscarded ==
    \/ recordingState # "recording" /\ recordingState' = "recording"
    \/ recordingState # "idle" /\ recordingState' = "idle"

\* C9: within a take capturedNotes only grows by appending, and every start of
\* a recording and every clear replaces it by the empty list and resets
\* musicXml and detectedBpm to null.
C9_AppendOnly ==
    [][/\ (recordingState \in {"recording", "stopped"} /\ ~TakeDiscarded) =>
              IsPrefix(capturedNotes, capturedNotes')
       /\ TakeDiscarded =>
              /\ capturedNotes' = <<>>
              /\ musicXml' = NullXml
              /\ detectedBpm' = Null]_vars

\* C9 witness: a take with a captured note was stopped and its document made.
C9_Witness ==
    /\ recordingState = "stopped"
    /\ Len(capturedNotes) = MaxCaptured
    /\ musicXml # NullXml
    /\ detectedBpm # Null

-----------------------------------------------------------------------------
(* Properties of the quantizer. *)

Quantized == qStage \in {"quantized", "notated"}

\* The grid subdivision quantizeNotes chooses for the take at the tempo it
\* reports: the one of least total snapping error of the normalized onsets.
ChosenSubdivision ==
    findBestSubdivision([i \in 1..Len(qTake) |->
        MsToBeats(qTake[i].startMs - qTake[1].startMs, qResult.bpm)])

\* The length of a captured note snaps to no grid unit at all.
SnapsToNothing(raw) ==
    snapToGrid(MsToBeats(raw.endMs - raw.startMs, qResult.bpm), ChosenSubdivision) <= 0

\* C11: every quantized note has a duration above zero; a captured note whose
\* length snaps to zero is in the output with a duration of exactly one unit
\* of the chosen subdivision; and no <note> of the document has duration 0.
C11_PositiveDurations ==
    /\ Quantized =>
           /\ \A i \in 1..Len(qResult.notes) : qResult.notes[i].durationBeats > 0
           /\ \A i \in 1..Len(qTake) :
                  SnapsToNothing(qTake[i]) =>
                      \E j \in 1..Len(qResult.notes) :
                          /\ qResult.notes[j].note = qTake[i].note
                          /\ qResult.notes[j].startBeat =
                                 snapToGrid(MsToBeats(qTake[i].startMs - qTake[1].startMs,
                                                      qResult.bpm), ChosenSubdivision)
                          /\ qResult.notes[j].durationBeats = ChosenSubdivision
    /\ Notated =>
           \A m \in 1..Len(qDoc.measures) :
               \A e \in 1..Len(qDoc.measures[m].elements) :
                   qDoc.measures[m].elements[e].duration > 0

\* C11 witness: a note of 10 ms starting on a sixteenth of the beat was
\* stretched to one sixteenth and notated.
C11_Witness ==
    /\ Notated
    /\ Len(qTake) = 2
    /\ qTake[2].startMs = 250
    /\ qTake[2].endMs = 260
    /\ \E j \in 1..2 : /\ qResult.notes[j].startBeat = UnitsPerBeat \div 2
                       /\ qResult.notes[j].durationBeats = UnitsPerBeat \div 2

-----------------------------------------------------------------------------
(* Properties of the tempo detector. *)

Detected == tStage = "detected"

\* The gaps between consecutive onsets.
Gaps(onsets) == [i \in 1..(Len(onsets) - 1) |-> onsets[i + 1] - onsets[i]]

\* How many consecutive gaps the filter of the IOI loop lets through.
ValidGapCount(onsets) ==
    Cardinality({ i \in 1..(Len(onsets) - 1) : IoiIsValid(Gaps(onsets)[i]) })

\* C12: with fewer than 3 onsets, and whenever fewer than 2 of the gaps
\* between consecutive onsets are valid, detectBPM returns exactly 120.
C12_DefaultTempo ==
    Detected /\ (Len(tOnsets) < 3 \/ ValidGapCount(tOnsets) < 2) => tBpm = 120

\* C12 witness: four onsets of which one gap only is valid gave 120.
C12_Witness ==
    /\ Detected
    /\ tOnsets = <<0, 500, 500, 4500>>
    /\ Len(tIois) = 1
    /\ tBpm = 120

\* C13: ten onsets 500 ms apart give exactly 120: the sweep stops on 120, the
\* lowest candidate of maximal score, and the final snap keeps it.
C13_SteadyPulse ==
    Detected /\ tOnsets = SteadyOnsets =>
        /\ SweepWinner(tIois) = 2 * 120
        /\ tBpm = 120

\* C13 witness: the ten onsets went through the sweep with nine intervals.
C13_Witness ==
    /\ Detected
    /\ tOnsets = SteadyOnsets
    /\ Len(tIois) = 9
    /\ tBpm = 120

\* The closed range 50..4000 ms.
InClosedRange(ioi) == ioi >= 50 /\ ioi <= 4000

\* C18: the intervals detectBPM keeps are exactly the gaps in the closed
\* range 50..4000 ms, gaps of exactly 50 and of exactly 4000 included.
C18_ClosedRange ==
    Detected /\ Len(tOnsets) >= 3 => tIois = SelectSeq(Gaps(tOnsets), InClosedRange)

Candidates == (2 * MIN_BPM)..(2 * MAX_BPM)

\* The total score of candidate k/2 BPM over the intervals.
TotalScore(k, iois) == SeqSum([i \in 1..Len(iois) |-> IoiScore(k, iois[i])])

\* C19: with two valid intervals or more the raw estimate is a candidate of
\* 40, 40.5, ..., 240 whose total score no candidate exceeds and no lower
\* candidate reaches, and the result is the snap of that estimate.
C19_LowestBestCandidate ==
    Detected /\ Len(tIois) >= 2 =>
        LET w == SweepWinner(tIois)
        IN /\ w \in Candidates
           /\ \A k \in Candidates :
                  /\ TotalScore(k, tIois) <= TotalScore(w, tIois)
                  /\ k < w => TotalScore(k, tIois) < TotalScore(w, tIois)
           /\ tBpm = SnapBpm(w)

\* C19 witness: three intervals of 51 ms, too short for a beat of any
\* candidate, went through the sweep: every candidate scores 0 and the lowest
\* of them, 40 BPM, is the estimate.
C19_Witness ==
    /\ Detected
    /\ tIois = <<51, 51, 51>>
    /\ \A k \in Candidates : TotalScore(k, tIois) = 0
    /\ SweepWinner(tIois) = 2 * MIN_BPM
    /\ tBpm = 40

-----------------------------------------------------------------------------
(* Properties of the chord recognizer. *)

Recognized == cStage = "recognized"

\* C14: the notes 60, 64, 67 are recognized as C major without a bass, "C";
\* the notes 57, 60, 64, 67 as C major over the bass A, "C/A".
C14_MajorTriads ==
    Recognized =>
        /\ cNotes = {60, 64, 67} =>
               cChord = [isNull |-> FALSE, root |-> "C", suffix |-> "",
                         quality |-> "major", bass |-> "", full |-> "C"]
        /\ cNotes = {57, 60, 64, 67} =>
               cChord = [isNull |-> FALSE, root |-> "C", suffix |-> "",
                         quality |-> "major", bass |-> "A", full |-> "C/A"]

\* The (root, pattern index) pairs whose pattern the held pitch classes match.
MatchingPairs(notes) ==
    LET noteClasses == {pitchClass(n) : n \in notes}
    IN { pair \in (0..11) \X (1..Len(CHORD_PATTERNS)) :
           intervalsMatch(noteClasses, pair[1], CHORD_PATTERNS[pair[2]].intervals) }

PatternSize(pair) == Len(CHORD_PATTERNS[pair[2]].intervals)

\* The matching pairs of the most intervals.
LargestPairs(notes) ==
    { pair \in MatchingPairs(notes) :
        \A other \in MatchingPairs(notes) : PatternSize(other) <= PatternSize(pair) }

\* C20: for two held notes or more the chord is that of a matching pair of
\* the most intervals, and among those of one whose pattern is declared
\* first in the dictionary, whatever its root.
C20_FirstDeclaredPattern ==
    Recognized /\ Cardinality(cNotes) >= 2 /\ MatchingPairs(cNotes) # {} =>
        \E pair \in LargestPairs(cNotes) :
            /\ \A other \in LargestPairs(cNotes) : pair[2] <= other[2]
            /\ ~cChord.isNull
            /\ cChord.root = noteName(pair[1])
            /\ cChord.suffix = CHORD_PATTERNS[pair[2]].name
            /\ cChord.quality = CHORD_PATTERNS[pair[2]].quality

-----------------------------------------------------------------------------
(* Properties of the notation of single takes. *)

\* The take of one note, C4 held from 0 to 500 ms.
OneShortNote ==
    <<[note |-> 60, velocity |-> 100, channel |-> 1, startMs |-> 0, endMs |-> 500]>>

\* Some note of the quantized take starts on the first beat of measure m.
StartsOnDownbeat(m) ==
    \E i \in 1..Len(qResult.notes) :
        qResult.notes[i].startBeat = (m - 1) * 4 * UnitsPerBeat

\* C15: the single note 0-500 ms is quantized to 120 BPM, start beat 0,
\* duration 1 beat and 4 beats in total, and notated as one measure that
\* begins with the quarter note, no rest before it, and goes on with rest
\* only, 3 beats of it; and in every document a measure whose first group
\* starts where the cursor stands, on the downbeat, begins with that group.
C15_NoRestBeforeGroupOnCursor ==
    /\ Quantized /\ qTake = OneShortNote =>
           /\ qResult.bpm = 120
           /\ Len(qResult.notes) = 1
           /\ qResult.notes[1].startBeat = 0
           /\ qResult.notes[1].durationBeats = UnitsPerBeat
           /\ qResult.totalBeats = 4 * UnitsPerBeat
    /\ Notated /\ qTake = OneShortNote =>
           /\ Len(qDoc.measures) = 1
           /\ LET elements == qDoc.measures[1].elements
              IN /\ elements[1].kind = "note"
                 /\ elements[1].type = "quarter"
                 /\ elements[1].duration = DIVISIONS
                 /\ \A e \in 2..Len(elements) : elements[e].kind = "rest"
                 /\ SeqSum([e \in 1..(Len(elements) - 1) |-> elements[e + 1].duration])
                        = 3 * DIVISIONS
    /\ Notated =>
           \A m \in 1..Len(qDoc.measures) :
               StartsOnDownbeat(m) => qDoc.measures[m].elements[1].kind = "note"

\* C16: quantizeNotes and generateMusicXml run twice on the same take give
\* the same document, whatever the clock reads at either run.
C16_SameTakeSameDocument ==
    qStage = "renotated" => qDoc2 = qDoc

-----------------------------------------------------------------------------
(* Properties of the stop of an empty take. *)

\* A musicXml value is truthy: neither null nor the empty string.
HasDocument(xml) == xml.kind = "xml"

\* SheetMusicPanel's "Processing..." placeholder:
\* recordingState === "stopped" && !musicXml.
ProcessingShown ==
    HookMounted /\ recordingState = "stopped" /\ ~HasDocument(musicXml)

\* The stop effect has run on a take without any note.
EmptyTakeStopped ==
    /\ Settled
    /\ recordingState = "stopped"
    /\ capturedNotes = <<>>
    /\ allNotes = <<>>
    /\ takeOpen = EmptyMap
    /\ takeClosed = <<>>

\* C17: once the stop of a take without notes has been processed the session
\* holds the empty document with tempo 120, and the panel does not show the
\* session as still waiting for a document.
C17_EmptyTakeFinished ==
    EmptyTakeStopped =>
        /\ musicXml = EmptyXml
        /\ detectedBpm = DEFAULT_BPM
        /\ ~ProcessingShown

-----------------------------------------------------------------------------
(* Properties of the snapping of onsets and offsets. *)

\* The onset and the offset of captured note i as beat positions, counted
\* from the start of the take at the tempo quantizeNotes reports.
OnsetBeat(i) == MsToBeats(qTake[i].startMs - qTake[1].startMs, qResult.bpm)

OffsetBeat(i) == MsToBeats(qTake[i].endMs - qTake[1].startMs, qResult.bpm)

\* C21: every captured note is in the output with its start on the multiple
\* of the chosen subdivision nearest its onset and its end, start plus
\* duration, on the multiple nearest its offset, the two snapped each on its
\* own; except for a note of snapped length zero, stretched to one unit.
C21_EndpointsSnapped ==
    Quantized =>
        \A i \in 1..Len(qTake) :
            LET start == snapToGrid(OnsetBeat(i), ChosenSubdivision)
                end == snapToGrid(OffsetBeat(i), ChosenSubdivision)
            IN \E j \in 1..Len(qResult.notes) :
                   /\ qResult.notes[j].note = qTake[i].note
                   /\ qResult.notes[j].startBeat = start
                   /\ IF end - start <= 0 \/ SnapsToNothing(qTake[i])
                      THEN qResult.notes[j].durationBeats = ChosenSubdivision
                      ELSE qResult.notes[j].startBeat + qResult.notes[j].durationBeats = end

-----------------------------------------------------------------------------
(* Properties of the choice of the grid. *)

\* The ladder 1, 1/2, 1/4, 1/8, 1/16 of a beat, as a set.
Ladder == { GRID_SUBDIVISIONS[i] : i \in 1..Len(GRID_SUBDIVISIONS) }

\* The total absolute snap error of the take's onsets on the grid sub.
OnsetError(sub) ==
    SeqSum([i \in 1..Len(qTake) |-> Abs(OnsetBeat(i) - snapToGrid(OnsetBeat(i), sub))])

\* C22: the subdivision of a take is one of the ladder with the lowest total
\* onset error, the coarsest of those with that error, its error is that of
\* the 1/16 grid, and every note of the output lies on it and is as long as
\* a multiple of it.
C22_CoarsestBestGrid ==
    Quantized /\ Len(qTake) > 0 =>
        /\ ChosenSubdivision \in Ladder
        /\ \A sub \in Ladder :
               /\ OnsetError(ChosenSubdivision) <= OnsetError(sub)
               /\ OnsetError(sub) = OnsetError(ChosenSubdivision) => sub <= ChosenSubdivision
        /\ OnsetError(ChosenSubdivision) = OnsetError(UnitsPerBeat \div 16)
        /\ \A j \in 1..Len(qResult.notes) :
               /\ qResult.notes[j].startBeat % ChosenSubdivision = 0
               /\ qResult.notes[j].durationBeats % ChosenSubdivision = 0
        /\ \A i \in 1..Len(qTake) :
               \E j \in 1..Len(qResult.notes) :
                   /\ qResult.notes[j].note = qTake[i].note
                   /\ qResult.notes[j].startBeat =
                          snapToGrid(OnsetBeat(i), ChosenSubdivision)

\* C22 witness: onsets at 0 and 0.52 beat, as near the grid of 1/2 as any
\* finer one and farther from the grid of 1, were put on the grid of 1/2.
C22_Witness ==
    /\ Quantized
    /\ Len(qTake) = 2
    /\ qTake[1].startMs = 0
    /\ qTake[2].startMs = 260
    /\ OnsetError(UnitsPerBeat \div 2) = OnsetError(UnitsPerBeat \div 16)
    /\ OnsetError(UnitsPerBeat \div 2) > 0
    /\ OnsetError(UnitsPerBeat) > OnsetError(UnitsPerBeat \div 2)
    /\ ChosenSubdivision = UnitsPerBeat \div 2
    /\ qResult.notes[2].startBeat = UnitsPerBeat \div 2

-----------------------------------------------------------------------------
(* Properties of takes in any order. *)

\* The orderings of the take.
Orderings(take) ==
    { [i \in 1..Len(take) |-> take[perm[i]]] :
        perm \in { f \in [1..Len(take) -> 1..Len(take)] :
                     \A i, j \in 1..Len(take) : f[i] = f[j] => i = j } }

\* C23: whatever the order of the take, quantizeNotes followed by
\* generateMusicXml raises nothing and gives what every other ordering of
\* the same notes gives.
C23_OrderIrrelevant ==
    /\ Quantized =>
           \A other \in Orderings(qTake) : quantizeNotes(other) = qResult
    /\ qStage = "notated" =>
           /\ qDoc # ThrownXml
           /\ \A other \in Orderings(qTake) :
                  generateMusicXml(quantizeNotes(other), TITLE, ToISODate(now)) = qDoc

-----------------------------------------------------------------------------
(* Properties of the stored take. *)

\* The stored captured-note list, ordered as the stop effect orders a take.
StoredTake ==
    StableSort(capturedNotes, [i \in 1..Len(capturedNotes) |-> StartKey(capturedNotes[i])])

\* C24: once a take has stopped the stored captured-note list is the
\* finalized take: it holds every note handed to the quantizer, the notes
\* closed at stop included, and the document made of the stored list is the
\* document the session holds.
C24_StoredListIsFinalized ==
    Settled /\ recordingState = "stopped" =>
        /\ StoredTake = allNotes
        /\ HasDocument(musicXml) =>
               generateMusicXml(quantizeNotes(StoredTake), TITLE, musicXml.encodingDate)
                   = musicXml

-----------------------------------------------------------------------------
(* Properties of the deferred chord. *)

\* Every re-evaluation the handled note messages scheduled has run.
ChordSettled == timers = <<>>

-----------------------------------------------------------------------------
(* Properties of notes held before the recording. *)

\* C26: only a note whose press came while recording has a pending entry, and
\* a note held from before the recording gives no CapturedNote, be it
\* released in the recording or still held at the stop: the captured notes
\* are no more than the pairs completed in the take, and the finalized take
\* no more than those and the presses of the take still open at the stop.
C26_PreHeldNotCaptured ==
    /\ Settled /\ recordingState = "recording" =>
           /\ Keys(heldRef) \subseteq Keys(takeOpen)
           /\ Len(capturedNotes) <= Len(takeClosed)
    /\ Settled /\ recordingState = "stopped" =>
           /\ Len(capturedNotes) <= Len(takeClosed)
           /\ \A i \in 1..Len(allNotes) :
                  \/ allNotes[i].note \in Keys(takeOpen)
                  \/ \E j \in 1..Len(takeClosed) : takeClosed[j].note = allNotes[i].note

-----------------------------------------------------------------------------
(* Properties of capture across the tabs. *)

\* C28: while recording, whichever tab is shown, every press of the take not
\* yet released has its pending entry, and every press/release pair completed
\* in the take has been captured.
C28_CaptureOnAnyTab ==
    Settled /\ recordingState = "recording" =>
        /\ Keys(takeOpen) \subseteq Keys(heldRef)
        /\ Len(capturedNotes) >= Len(takeClosed)

-----------------------------------------------------------------------------
(* Properties of the keys of the held-note map. *)

\* C29: in every reachable state, whatever note message comes next and on
\* whatever channel: a note-on leaves exactly one entry for its note, with
\* the channel and velocity of that message, and touches no other entry; a
\* note-off removes the entry of its note, whichever channel inserted it, and
\* touches no other entry.
C29_KeyedByNote ==
    \A data \in TrackerInputs :
        LET parsed == parseMidiMessage(data, now)
            after == NotesAfter(parsed)
        IN /\ parsed.type = "noteOn" =>
                  /\ Keys(after) = Keys(activeNotes) \cup {parsed.note}
                  /\ after[parsed.note].channel = parsed.channel
                  /\ after[parsed.note].velocity = parsed.velocity
                  /\ \A n \in Keys(activeNotes) \ {parsed.note} : after[n] = activeNotes[n]
           /\ parsed.type = "noteOff" =>
                  /\ Keys(after) = Keys(activeNotes) \ {parsed.note}
                  /\ \A n \in Keys(after) : after[n] = activeNotes[n]

\* C29 witness: note 60 is held by a press on channel 1 and note 67 too; a
\* press of 60 on channel 2 would take over its entry, and the note-off of 60
\* on channel 2 would remove it.
C29_Witness ==
    /\ Keys(activeNotes) = {60, 67}
    /\ activeNotes[60].channel = 1
    /\ NotesAfter(parseMidiMessage(<<145, 60, 90>>, now))[60].channel = 2
    /\ parseMidiMessage(<<129, 60, 0>>, now).channel = 2
    /\ Keys(NotesAfter(parseMidiMessage(<<129, 60, 0>>, now))) = {67}

-----------------------------------------------------------------------------
(* Invariants of the session store. *)

SessionConsistent ==
    /\ (musicXml # NullXml \/ detectedBpm # Null) => recordingState = "stopped"
    /\ recordingState = "idle" => capturedNotes = <<>> /\ recordingStartMs = Null
    /\ recordingState \in {"recording", "stopped"} => recordingStartMs # Null

\* C27: in every reachable state the document and the tempo are non-null
\* only while stopped, the captured-note list is empty and the start time
\* null while idle, and the start time non-null while recording or stopped;
\* and every step that appends a captured note is made while recording.
C27_SessionInvariants ==
    /\ []SessionConsistent
    /\ [][Len(capturedNotes') > Len(capturedNotes) =>
              recordingState = "recording" /\ recordingState' = "recording"]_vars

\* C27 witness: a take is being recorded and its first note has been appended.
C27_Witness ==
    /\ recordingState = "recording"
    /\ Len(capturedNotes) = 1
    /\ recordingStartMs # Null
    /\ musicXml = NullXml
    /\ detectedBpm = Null

-----------------------------------------------------------------------------
(* Properties of the range of the tempo. *)

CommonTempi == { commonBpms[i] : i \in 1..Len(commonBpms) }

\* The common tempi strictly less than 3 BPM from the estimate k/2.
NearTempi(k) == { c \in CommonTempi : Abs(2 * c - k) < 6 }

\* C30: detectBPM returns a whole number from 40 to 240 for every list of
\* onsets: the estimate of the sweep is from 40 to 240, the result is a
\* common tempo less than 3 BPM from it where there is one, and the estimate
\* rounded to the nearest integer where there is none.
C30_TempoInRange ==
    Detected =>
        /\ tBpm \in MIN_BPM..MAX_BPM
        /\ Len(tIois) >= 2 =>
               LET k == SweepWinner(tIois)
               IN /\ k \in Candidates
                  /\ IF NearTempi(k) # {}
                     THEN tBpm \in NearTempi(k)
                     ELSE tBpm = RoundDiv(k, 2)

\* C30 witness: intervals of 407 ms give the estimate 147.5, 3.5 BPM above
\* 144 and 4.5 below 152, and the result is 148.
C30_Witness ==
    /\ Detected
    /\ tIois = <<407, 407>>
    /\ SweepWinner(tIois) = 295
    /\ NearTempi(295) = {}
    /\ tBpm = 148

====
